---- MODULE Spec2Model ----
(***************************************************************************)
(* Model of the Discord DM relay (src/main.py): the network context (the   *)
(* asyncio event loop running on_message, send_reply and                   *)
(* reload_all_histories), the control context (the run_cli thread) and the *)
(* asyncio.to_thread workers that write the two persisted documents.       *)
(*                                                                         *)
(* A step of the model is one thread-visible step of the code: a queue     *)
(* operation, one "with <lock>:" block, one file read or one file write.   *)
(* Coroutines on the event loop only interleave with each other at their   *)
(* awaits (LoopFree); the control thread and the workers interleave with   *)
(* everything.                                                             *)
(***************************************************************************)
EXTENDS Naturals, Integers, Sequences, FiniteSets, Bags, TLC

(* ---------------- bounds ---------------- *)
MaxUser == 2
MaxInbound == 1
MaxSends == 1
MaxReloads == 1
MaxReloadRuns == 2
MaxBurst == 2
MaxKnown == 4
MaxReady == 1
MaxLockOps == 2
MaxWorkers == 2

(* ---------------- program constants ---------------- *)
HISTORY_CONCURRENCY == 3

\* ids of the users that write to the relay or are written to by the operator
Users == 1..MaxUser

\* ids that known_users.json may hold when the process starts (Users included)
AllUsers == 1..MaxKnown

\* the text typed by the operator for an outbound message
OutText == "hi"

\* str(client.user): the label the remote history shows for the relay's own messages
BotLabel == "Bot"

\* str(message.author) of the user with id u
AuthorLabel(u) == "U" \o ToString(u)

\* message.content of the k-th inbound direct message (every message has its own)
Content(k) == "m" \o ToString(k)

\* f"{author}: {content}" : one formatted line of a Conversation Log
Fmt(author, content) == author \o ": " \o content

\* the outbound record labelled with the relay's own account name instead
FmtYouMut(msg) == Fmt(BotLabel, msg)

\* f"You: {msg}"
FmtYou(msg) == Fmt("You", msg)

VARIABLES
    incoming_queue,   \* queue.Queue of (author, content)
    unread_count,
    conversations,    \* uid -> list of lines; <<>> stands for an absent key
    knownFile,        \* known_users.json, as the set load_known_users returns
    convFile,         \* conversations.json
    remoteHist,       \* what channel.history() of the DM channel with uid yields
    channels,         \* recipients of client.private_channels
    nIn,              \* inbound direct messages delivered so far
    omPc, omMsg,      \* position of the on_message callback and its message
    convSaves,        \* save_conversations() tasks scheduled and not yet run
    knownSaves,       \* bag of save_known_users(payload) tasks not yet run
    convLock,         \* holder of conversations_lock across a file write
    cliPc,            \* position of the run_cli thread
    cliMsg,           \* the (author, content) popped by the control-side drain
    cliDrained,       \* len(drained) of the drain in progress
    cliKnown,         \* the local "known" of the control thread
    cliUid,           \* target of the send in progress
    nSends,           \* sends dispatched so far
    sendFut,          \* state of the send_reply coroutine dispatched to the loop
    sendUid,          \* the uid argument of that coroutine
    reload_future,    \* run_cli's reload_future
    nReloads,         \* reloads started so far
    rlPc,             \* position of the reload_all_histories coroutine
    tasks,            \* uid -> state of its fetch_for_uid task
    results,          \* uid -> texts returned by its fetch_for_uid task
    rlMsg,            \* the (author, content) popped by the reload drain
    rlKnown,          \* the local "known" of the reload drain
    summary,          \* {"updated": .., "drained": ..} under construction / returned
    quietDrains,      \* control-side drains that found the queue empty since the last put
    lastTrigger,      \* what menu choice 5 reported, until the menu is shown again
    inFlight,         \* executions of reload_all_histories started and not ended
    intact,           \* inbound messages whose log no merge has replaced since
    midReload,        \* inbound messages that arrived while tasks were gathered
    rlTimedOut,       \* the reload in progress / last ended hit the global timeout
    orPc,             \* position of on_ready / of its load_conversations_sync worker
    orData,           \* "data" of load_conversations_sync: what load_json returned
    nReady,           \* on_ready events fired so far
    procPc,           \* the process: "up", "closing" (the client is closing or has
                      \* ended), "down" (the loop has stopped), "exited"
    ioFailed,         \* some write of conversations.json has failed
    asPc,             \* position of one atomic_save(path, data) call
    asDoc,            \* the file at path
    asTmp,            \* the temporary file of the call
    asData,           \* the data argument of the call
    asOld,            \* the file at path when the call started
    asLoad,           \* the last load_json(path, default): its default and its result
    lockHolder,       \* lock -> the thread inside its "with" block, or NoThread
    thPc,             \* thread -> the operation it runs and its position in it
    toThread,         \* function -> its asyncio.to_thread calls waiting for a worker
    nOps              \* thread -> operations the thread has started so far

vars == <<incoming_queue, unread_count, conversations, knownFile, convFile,
          remoteHist, channels, nIn, omPc, omMsg, convSaves, knownSaves, convLock,
          cliPc, cliMsg, cliDrained, cliKnown, cliUid, nSends, sendFut, sendUid,
          reload_future, nReloads, rlPc, tasks, results, rlMsg, rlKnown, summary,
          quietDrains, lastTrigger, inFlight, intact, midReload, rlTimedOut,
          orPc, orData, nReady, procPc, ioFailed,
          asPc, asDoc, asTmp, asData, asOld, asLoad,
          lockHolder, thPc, toThread, nOps>>

sharedVars == <<incoming_queue, unread_count, conversations, knownFile, convFile,
                remoteHist, channels, convSaves, knownSaves, convLock>>
omVars == <<nIn, omPc, omMsg>>
cliVars == <<cliPc, cliMsg, cliDrained, cliKnown, cliUid, nSends, lastTrigger>>
sendVars == <<sendFut, sendUid>>
rlVars == <<reload_future, nReloads, rlPc, tasks, results, rlMsg, rlKnown, summary,
            inFlight, rlTimedOut>>
ghostVars == <<intact, midReload, quietDrains>>
readyVars == <<orPc, orData, nReady>>
saveVars == <<asPc, asDoc, asTmp, asData, asOld, asLoad>>
lockVars == <<lockHolder, thPc, toThread, nOps>>
extVars == <<readyVars, procPc, ioFailed, saveVars, lockVars>>
coreVars == <<sharedVars, omVars, cliVars, sendVars, rlVars>>

NoSummary == [updated |-> 0, drained |-> 0]

\* a path at which no file exists
NoFile == [exists |-> FALSE, text |-> <<>>]

\* no load_json call has been made
NoLoad == [default |-> <<>>, value |-> <<>>]

(* ---------------- threads and locks ---------------- *)

\* the thread running the asyncio event loop (on_ready, on_message,
\* reload_all_histories), the run_cli thread, and the asyncio.to_thread workers
LoopThread == 0
CliThread == 1
WorkerThreads == 2..(MaxWorkers + 1)
Threads == {LoopThread, CliThread} \cup WorkerThreads

\* holder of a lock that no thread holds
NoThread == -1

\* the three threading.Lock objects of the module
Locks == {"unread_lock", "conversations_lock", "bot_status_lock"}

\* the functions handed to asyncio.to_thread that take a lock
WorkerCalls == {"save_conversations_sync", "load_conversations_sync"}

\* a thread that is inside none of the operations below
Idle == [op |-> "idle", at |-> 0]

\* the state after construction, up to the files and histories found at start
InitRest ==
    /\ incoming_queue = <<>>
    /\ unread_count = 0
    /\ conversations = [u \in AllUsers |-> <<>>]
    /\ convFile = [u \in AllUsers |-> <<>>]
    /\ channels = {}
    /\ nIn = 0
    /\ omPc = "idle"
    /\ omMsg = <<>>
    /\ convSaves = 0
    /\ knownSaves = EmptyBag
    /\ convLock = "free"
    /\ cliPc = "drain_pop"
    /\ cliMsg = <<>>
    /\ cliDrained = 0
    /\ cliKnown = {}
    /\ cliUid = 0
    /\ nSends = 0
    /\ sendFut = "none"
    /\ sendUid = 0
    /\ reload_future = "none"
    /\ nReloads = 0
    /\ rlPc = "none"
    /\ tasks = [u \in AllUsers |-> "none"]
    /\ results = [u \in AllUsers |-> <<>>]
    /\ rlMsg = <<>>
    /\ rlKnown = {}
    /\ summary = NoSummary
    /\ quietDrains = 0
    /\ lastTrigger = "none"
    /\ inFlight = 0
    /\ intact = {}
    /\ midReload = {}
    /\ rlTimedOut = FALSE
    /\ orPc = "idle"
    /\ orData = [u \in AllUsers |-> <<>>]
    /\ nReady = 0
    /\ procPc = "up"
    /\ ioFailed = FALSE
    /\ asPc = "idle"
    /\ asTmp = NoFile
    /\ asData = <<>>
    /\ asOld = NoFile
    /\ asLoad = NoLoad
    /\ lockHolder = [l \in Locks |-> NoThread]
    /\ thPc = [t \in Threads |-> Idle]
    /\ toThread = [f \in WorkerCalls |-> 0]
    /\ nOps = [t \in {LoopThread, CliThread} |-> 0]

\* a first start: no document exists and no user has written yet
Init ==
    /\ InitRest
    /\ knownFile = {}
    /\ remoteHist = [u \in AllUsers |-> <<>>]
    /\ asDoc = NoFile

(* ---------------- scheduling of the event loop ---------------- *)

\* positions at which reload_all_histories is running on the loop (between two awaits)
RlRunning == {"pop", "dec", "append", "known"}

\* the event loop is running and between callbacks: a ready coroutine may be resumed
LoopFree == omPc = "idle" /\ rlPc \notin RlRunning /\ procPc \in {"up", "closing"}

(* ---------------- on_message (network context) ---------------- *)

\* incoming_queue.put((message.author, message.content)); the message is the
\* nIn+1-th direct message (of at most cap in a run of the model) and is part of
\* the remote history from then on
OnMessagePut(u, cap) ==
    /\ LoopFree
    /\ nIn < cap
    /\ nIn' = nIn + 1
    /\ omMsg' = <<u, Content(nIn + 1)>>
    /\ omPc' = "inc"
    /\ incoming_queue' = Append(incoming_queue, <<u, Content(nIn + 1)>>)
    /\ remoteHist' = [remoteHist EXCEPT ![u] = Append(@, Fmt(AuthorLabel(u), Content(nIn + 1)))]
    /\ channels' = channels \cup {u}
    /\ midReload' = IF rlPc = "gather" THEN midReload \cup {<<u, Content(nIn + 1)>>} ELSE midReload
    /\ quietDrains' = 0
    /\ UNCHANGED <<unread_count, conversations, knownFile, convFile, convSaves,
                   knownSaves, convLock, intact>>
    /\ UNCHANGED <<cliVars, sendVars, rlVars>>
    /\ UNCHANGED extVars

\* with unread_lock: unread_count += 1
OnMessageInc ==
    /\ omPc = "inc"
    /\ unread_count' = unread_count + 1
    /\ omPc' = "append"
    /\ UNCHANGED <<incoming_queue, conversations, knownFile, convFile, remoteHist,
                   channels, convSaves, knownSaves, convLock, nIn, omMsg>>
    /\ UNCHANGED <<cliVars, sendVars, rlVars, ghostVars>>
    /\ UNCHANGED extVars

\* with conversations_lock: conversations.setdefault(id, []).append(line);
\* asyncio.create_task(save_conversations())
OnMessageAppend ==
    /\ omPc = "append"
    /\ convLock = "free"
    /\ conversations' = [conversations EXCEPT ![omMsg[1]] = Append(@, Fmt(AuthorLabel(omMsg[1]), omMsg[2]))]
    /\ convSaves' = convSaves + 1
    /\ intact' = intact \cup {omMsg}
    /\ omPc' = "known"
    /\ UNCHANGED <<incoming_queue, unread_count, knownFile, convFile, remoteHist,
                   channels, knownSaves, convLock, nIn, omMsg, midReload, quietDrains>>
    /\ UNCHANGED <<cliVars, sendVars, rlVars>>
    /\ UNCHANGED extVars

\* known = set(load_known_users()); known.add(id);
\* asyncio.create_task(save_known_users(sorted(list(known))))
OnMessageKnown ==
    /\ omPc = "known"
    /\ knownSaves' = knownSaves (+) SetToBag({knownFile \cup {omMsg[1]}})
    /\ omPc' = "idle"
    /\ omMsg' = <<>>
    /\ UNCHANGED <<incoming_queue, unread_count, conversations, knownFile, convFile,
                   remoteHist, channels, convSaves, convLock, nIn>>
    /\ UNCHANGED <<cliVars, sendVars, rlVars, ghostVars>>
    /\ UNCHANGED extVars

(* ---------------- asyncio.to_thread workers ---------------- *)

\* save_conversations_sync in a worker: "with conversations_lock:" entered
WorkerSaveConvAcquire ==
    /\ convSaves > 0
    /\ convLock = "free"
    /\ convLock' = "worker"
    /\ convSaves' = convSaves - 1
    /\ UNCHANGED <<incoming_queue, unread_count, conversations, knownFile, convFile,
                   remoteHist, channels, knownSaves>>
    /\ UNCHANGED <<omVars, cliVars, sendVars, rlVars, ghostVars>>
    /\ UNCHANGED extVars

\* atomic_save(CONVERSATIONS_FILE, conversations) done, lock released
WorkerSaveConvRelease ==
    /\ convLock = "worker"
    /\ convFile' = conversations
    /\ convLock' = "free"
    /\ UNCHANGED <<incoming_queue, unread_count, conversations, knownFile,
                   remoteHist, channels, convSaves, knownSaves>>
    /\ UNCHANGED <<omVars, cliVars, sendVars, rlVars, ghostVars>>
    /\ UNCHANGED extVars

\* save_known_users_sync(payload) in a worker
WorkerSaveKnown(p) ==
    /\ BagIn(p, knownSaves)
    /\ knownFile' = p
    /\ knownSaves' = knownSaves (-) SetToBag({p})
    /\ UNCHANGED <<incoming_queue, unread_count, conversations, convFile,
                   remoteHist, channels, convSaves, convLock>>
    /\ UNCHANGED <<omVars, cliVars, sendVars, rlVars, ghostVars>>
    /\ UNCHANGED extVars

(* ---------------- drain_incoming_queue_to_conversations (control thread) ---------------- *)

\* the drain saving unconditionally
NeedsSaveMut(n) == TRUE

\* "if drained:" -- the drain saves the conversations only if it drained something
NeedsSave(n) == n > 0

\* incoming_queue.get_nowait(); on queue.Empty the loop ends and, with nothing
\* drained, the function returns [] at once
CliDrainPop ==
    /\ cliPc = "drain_pop"
    /\ IF incoming_queue = <<>>
       THEN /\ UNCHANGED <<incoming_queue, cliMsg, cliDrained>>
            /\ quietDrains' = IF quietDrains < 2 THEN quietDrains + 1 ELSE 2
            /\ cliPc' = IF NeedsSave(cliDrained) THEN "drain_save" ELSE "menu"
       ELSE /\ cliMsg' = Head(incoming_queue)
            /\ incoming_queue' = Tail(incoming_queue)
            /\ cliPc' = "drain_dec"
            /\ UNCHANGED <<cliDrained, quietDrains>>
    /\ lastTrigger' = "none"
    /\ UNCHANGED <<unread_count, conversations, knownFile, convFile, remoteHist,
                   channels, convSaves, knownSaves, convLock>>
    /\ UNCHANGED <<cliKnown, cliUid, nSends, intact, midReload>>
    /\ UNCHANGED <<omVars, sendVars, rlVars>>
    /\ UNCHANGED extVars

\* the decrement without its guard
DecUnreadMut(n) == n - 1

\* "if unread_count > 0: unread_count -= 1"
DecUnread(n) == IF n > 0 THEN n - 1 ELSE n

\* with unread_lock: if unread_count > 0: unread_count -= 1
CliDrainDec ==
    /\ cliPc = "drain_dec"
    /\ unread_count' = DecUnread(unread_count)
    /\ cliPc' = "drain_append"
    /\ UNCHANGED <<incoming_queue, conversations, knownFile, convFile, remoteHist,
                   channels, convSaves, knownSaves, convLock>>
    /\ UNCHANGED <<cliMsg, cliDrained, cliKnown, cliUid, nSends, lastTrigger>>
    /\ UNCHANGED <<omVars, sendVars, rlVars, ghostVars>>
    /\ UNCHANGED extVars

\* with conversations_lock: conversations.setdefault(author.id, []).append(line);
\* drained.append(..)
CliDrainAppend ==
    /\ cliPc = "drain_append"
    /\ convLock = "free"
    /\ conversations' = [conversations EXCEPT ![cliMsg[1]] = Append(@, Fmt(AuthorLabel(cliMsg[1]), cliMsg[2]))]
    /\ cliDrained' = cliDrained + 1
    /\ cliPc' = "drain_load"
    /\ UNCHANGED <<incoming_queue, unread_count, knownFile, convFile, remoteHist,
                   channels, convSaves, knownSaves, convLock>>
    /\ UNCHANGED <<cliMsg, cliKnown, cliUid, nSends, lastTrigger>>
    /\ UNCHANGED <<omVars, sendVars, rlVars, ghostVars>>
    /\ UNCHANGED extVars

\* known = set(load_known_users()); known.add(author.id)
CliDrainLoad ==
    /\ cliPc = "drain_load"
    /\ cliKnown' = knownFile \cup {cliMsg[1]}
    /\ cliPc' = "drain_known"
    /\ UNCHANGED sharedVars
    /\ UNCHANGED <<cliMsg, cliDrained, cliUid, nSends, lastTrigger>>
    /\ UNCHANGED <<omVars, sendVars, rlVars, ghostVars>>
    /\ UNCHANGED extVars

\* save_known_users_sync(sorted(list(known)))
CliDrainSaveKnown ==
    /\ cliPc = "drain_known"
    /\ knownFile' = cliKnown
    /\ cliKnown' = {}
    /\ cliMsg' = <<>>
    /\ cliPc' = "drain_pop"
    /\ UNCHANGED <<incoming_queue, unread_count, conversations, convFile, remoteHist,
                   channels, convSaves, knownSaves, convLock>>
    /\ UNCHANGED <<cliDrained, cliUid, nSends, lastTrigger>>
    /\ UNCHANGED <<omVars, sendVars, rlVars, ghostVars>>
    /\ UNCHANGED extVars

\* if drained: save_conversations_sync()  -- "with conversations_lock:" entered
CliDrainSaveAcquire ==
    /\ cliPc = "drain_save"
    /\ convLock = "free"
    /\ convLock' = "cli"
    /\ cliPc' = "drain_saving"
    /\ UNCHANGED <<incoming_queue, unread_count, conversations, knownFile, convFile,
                   remoteHist, channels, convSaves, knownSaves>>
    /\ UNCHANGED <<cliMsg, cliDrained, cliKnown, cliUid, nSends, lastTrigger>>
    /\ UNCHANGED <<omVars, sendVars, rlVars, ghostVars>>
    /\ UNCHANGED extVars

\* the document is written, the lock released, and drained is returned
CliDrainSaveRelease ==
    /\ cliPc = "drain_saving"
    /\ convFile' = conversations
    /\ convLock' = "free"
    /\ cliDrained' = 0
    /\ cliPc' = "menu"
    /\ UNCHANGED <<incoming_queue, unread_count, conversations, knownFile,
                   remoteHist, channels, convSaves, knownSaves>>
    /\ UNCHANGED <<cliMsg, cliKnown, cliUid, nSends, lastTrigger>>
    /\ UNCHANGED <<omVars, sendVars, rlVars, ghostVars>>
    /\ UNCHANGED extVars

(* ---------------- run_cli: the menu (control thread) ---------------- *)

\* choices 1, 6 and invalid input: nothing of the shared state is touched and
\* the loop starts its next iteration with a drain
CliMenuLoop ==
    /\ cliPc = "menu"
    /\ cliPc' = "drain_pop"
    /\ UNCHANGED sharedVars
    /\ UNCHANGED <<cliMsg, cliDrained, cliKnown, cliUid, nSends, lastTrigger>>
    /\ UNCHANGED <<omVars, sendVars, rlVars, ghostVars>>
    /\ UNCHANGED extVars

\* choices 2 and 3: fut = asyncio.run_coroutine_threadsafe(send_reply(uid, msg), loop)
CliSendDispatch(u) ==
    /\ cliPc = "menu"
    /\ nSends < MaxSends
    /\ sendFut = "none"
    /\ nSends' = nSends + 1
    /\ sendFut' = "pending"
    /\ sendUid' = u
    /\ cliUid' = u
    /\ cliPc' = "send_wait"
    /\ UNCHANGED sharedVars
    /\ UNCHANGED <<cliMsg, cliDrained, cliKnown, lastTrigger>>
    /\ UNCHANGED <<omVars, rlVars, ghostVars>>
    /\ UNCHANGED extVars

\* fut.result(timeout=20) returned: with conversations_lock: append "You: ..";
\* asyncio.run_coroutine_threadsafe(save_conversations(), loop)
CliSendOk ==
    /\ cliPc = "send_wait"
    /\ sendFut = "ok"
    /\ convLock = "free"
    /\ conversations' = [conversations EXCEPT ![cliUid] = Append(@, FmtYou(OutText))]
    /\ convSaves' = convSaves + 1
    /\ sendFut' = "none"
    /\ sendUid' = 0
    /\ cliPc' = "send_known"
    /\ UNCHANGED <<incoming_queue, unread_count, knownFile, convFile, remoteHist,
                   channels, knownSaves, convLock>>
    /\ UNCHANGED <<cliMsg, cliDrained, cliKnown, cliUid, nSends, lastTrigger>>
    /\ UNCHANGED <<omVars, rlVars, ghostVars>>
    /\ UNCHANGED extVars

\* known = set(load_known_users()); known.add(uid);
\* asyncio.run_coroutine_threadsafe(save_known_users(sorted(list(known))), loop)
CliSendKnown ==
    /\ cliPc = "send_known"
    /\ knownSaves' = knownSaves (+) SetToBag({knownFile \cup {cliUid}})
    /\ cliUid' = 0
    /\ cliPc' = "drain_pop"
    /\ UNCHANGED <<incoming_queue, unread_count, conversations, knownFile, convFile,
                   remoteHist, channels, convSaves, convLock>>
    /\ UNCHANGED <<cliMsg, cliDrained, cliKnown, nSends, lastTrigger>>
    /\ UNCHANGED <<omVars, sendVars, rlVars, ghostVars>>
    /\ UNCHANGED extVars

\* fut.result(timeout=20) raised the coroutine's exception: "Failed to send"
CliSendErr ==
    /\ cliPc = "send_wait"
    /\ sendFut = "err"
    /\ sendFut' = "none"
    /\ sendUid' = 0
    /\ cliUid' = 0
    /\ cliPc' = "drain_pop"
    /\ UNCHANGED sharedVars
    /\ UNCHANGED <<cliMsg, cliDrained, cliKnown, nSends, lastTrigger>>
    /\ UNCHANGED <<omVars, rlVars, ghostVars>>
    /\ UNCHANGED extVars

\* fut.result(timeout=20) timed out: "Failed to send"; the coroutine is not
\* cancelled and stays scheduled on the loop
CliSendTimeout ==
    /\ cliPc = "send_wait"
    /\ sendFut = "pending"
    /\ cliUid' = 0
    /\ cliPc' = "drain_pop"
    /\ UNCHANGED sharedVars
    /\ UNCHANGED <<cliMsg, cliDrained, cliKnown, nSends, lastTrigger>>
    /\ UNCHANGED <<omVars, sendVars, rlVars, ghostVars>>
    /\ UNCHANGED extVars

(* ---------------- send_reply (network context) ---------------- *)

\* user.send(reply) succeeded: the message is in the remote history and the DM
\* channel is open; the result reaches the control thread if it still waits
NetSendOk ==
    /\ sendFut = "pending"
    /\ LoopFree
    /\ remoteHist' = [remoteHist EXCEPT ![sendUid] = Append(@, Fmt(BotLabel, OutText))]
    /\ channels' = channels \cup {sendUid}
    /\ IF cliPc = "send_wait"
       THEN sendFut' = "ok" /\ UNCHANGED sendUid
       ELSE sendFut' = "none" /\ sendUid' = 0
    /\ UNCHANGED <<incoming_queue, unread_count, conversations, knownFile, convFile,
                   convSaves, knownSaves, convLock>>
    /\ UNCHANGED <<omVars, cliVars, rlVars, ghostVars>>
    /\ UNCHANGED extVars

\* client.fetch_user(uid) or user.send(reply) raised
NetSendErr ==
    /\ sendFut = "pending"
    /\ LoopFree
    /\ IF cliPc = "send_wait"
       THEN sendFut' = "err" /\ UNCHANGED sendUid
       ELSE sendFut' = "none" /\ sendUid' = 0
    /\ UNCHANGED sharedVars
    /\ UNCHANGED <<omVars, cliVars, rlVars, ghostVars>>
    /\ UNCHANGED extVars

(* ---------------- run_cli: menu choice 5 (control thread) ---------------- *)

\* the guard of choice 5 dropped: a reload is scheduled whatever the future says
ReloadBusyMut == FALSE

\* "reload_future and not reload_future.done()"
ReloadBusy == reload_future = "running"

\* choice 5: report "already running", or schedule reload_all_histories on the loop
\* (at most cap times in a run of the model)
CliTriggerReload(cap) ==
    /\ cliPc = "menu"
    /\ IF ReloadBusy
       THEN /\ lastTrigger' = "already_running"
            /\ UNCHANGED <<rlVars, midReload>>
       ELSE /\ nReloads < cap
            /\ lastTrigger' = "started"
            /\ reload_future' = "running"
            /\ nReloads' = nReloads + 1
            /\ inFlight' = inFlight + 1
            /\ rlPc' = "sched"
            /\ tasks' = [u \in AllUsers |-> "none"]
            /\ results' = [u \in AllUsers |-> <<>>]
            /\ rlMsg' = <<>>
            /\ rlKnown' = {}
            /\ summary' = NoSummary
            /\ rlTimedOut' = FALSE
            /\ midReload' = {}
    /\ cliPc' = "drain_pop"
    /\ UNCHANGED sharedVars
    /\ UNCHANGED <<cliMsg, cliDrained, cliKnown, cliUid, nSends>>
    /\ UNCHANGED <<omVars, sendVars, intact, quietDrains>>
    /\ UNCHANGED extVars

(* ---------------- reload_all_histories (network context) ---------------- *)

\* t.done(): the fetch_for_uid task has returned or has been cancelled
TaskDone(t) == t \in {"ok", "failed", "cancelled"}

\* known_ids = set(load_known_users()) plus the recipients of client.private_channels
Targets == knownFile \cup channels

\* the coroutine starts: the target set is built and one task per target created;
\* it then awaits asyncio.wait_for(asyncio.gather(*tasks), ..)
RlStart ==
    /\ rlPc = "sched"
    /\ LoopFree
    /\ tasks' = [u \in AllUsers |-> IF u \in Targets THEN "wait" ELSE "none"]
    /\ rlPc' = "gather"
    /\ UNCHANGED sharedVars
    /\ UNCHANGED <<reload_future, nReloads, results, rlMsg, rlKnown, summary, inFlight,
                   rlTimedOut>>
    /\ UNCHANGED <<omVars, cliVars, sendVars, ghostVars>>
    /\ UNCHANGED extVars

\* the semaphore admitting whatever its count
SemFreeMut(n) == TRUE

\* asyncio.Semaphore(semaphore_limit): free while fewer than the limit hold it
SemFree(n) == n < HISTORY_CONCURRENCY

\* "async with sem": waiters are admitted in creation (sorted uid) order while
\* the semaphore is free
TaskAdmit(u) ==
    /\ rlPc = "gather"
    /\ LoopFree
    /\ tasks[u] = "wait"
    /\ \A v \in AllUsers : tasks[v] = "wait" => u <= v
    /\ SemFree(Cardinality({v \in AllUsers : tasks[v] = "fetching"}))
    /\ tasks' = [tasks EXCEPT ![u] = "fetching"]
    /\ UNCHANGED sharedVars
    /\ UNCHANGED <<reload_future, nReloads, rlPc, results, rlMsg, rlKnown, summary,
                   inFlight, rlTimedOut>>
    /\ UNCHANGED <<omVars, cliVars, sendVars, ghostVars>>
    /\ UNCHANGED extVars

\* the whole history was retrieved: texts = one line per remote message
TaskFetchOk(u) ==
    /\ rlPc = "gather"
    /\ LoopFree
    /\ tasks[u] = "fetching"
    /\ tasks' = [tasks EXCEPT ![u] = "ok"]
    /\ results' = [results EXCEPT ![u] = remoteHist[u]]
    /\ channels' = channels \cup {u}
    /\ UNCHANGED <<incoming_queue, unread_count, conversations, knownFile, convFile,
                   remoteHist, convSaves, knownSaves, convLock>>
    /\ UNCHANGED <<reload_future, nReloads, rlPc, rlMsg, rlKnown, summary, inFlight,
                   rlTimedOut>>
    /\ UNCHANGED <<omVars, cliVars, sendVars, ghostVars>>
    /\ UNCHANGED extVars

\* fetch_user / create_dm raised: "except ...: return uid, []"
TaskFetchErr(u) ==
    /\ rlPc = "gather"
    /\ LoopFree
    /\ tasks[u] = "fetching"
    /\ tasks' = [tasks EXCEPT ![u] = "failed"]
    /\ results' = [results EXCEPT ![u] = <<>>]
    /\ UNCHANGED sharedVars
    /\ UNCHANGED <<reload_future, nReloads, rlPc, rlMsg, rlKnown, summary, inFlight,
                   rlTimedOut>>
    /\ UNCHANGED <<omVars, cliVars, sendVars, ghostVars>>
    /\ UNCHANGED extVars

\* fetch_channel_history: channel.history() raised after k messages (k = 0:
\* before the first one); the exception is logged and the k messages collected
\* so far are returned
HistoryUpTo(u, k) == SubSeq(remoteHist[u], 1, k)

TaskFetchPartial(u, k) ==
    /\ rlPc = "gather"
    /\ LoopFree
    /\ tasks[u] = "fetching"
    /\ k < Len(remoteHist[u])
    /\ tasks' = [tasks EXCEPT ![u] = "failed"]
    /\ results' = [results EXCEPT ![u] = HistoryUpTo(u, k)]
    /\ channels' = channels \cup {u}
    /\ UNCHANGED <<incoming_queue, unread_count, conversations, knownFile, convFile,
                   remoteHist, convSaves, knownSaves, convLock>>
    /\ UNCHANGED <<reload_future, nReloads, rlPc, rlMsg, rlKnown, summary, inFlight,
                   rlTimedOut>>
    /\ UNCHANGED <<omVars, cliVars, sendVars, ghostVars>>
    /\ UNCHANGED extVars

\* d.result() of a cancelled task raises asyncio.CancelledError, a BaseException
\* that "except Exception: pass" does not catch
ResultRaises(t) == t = "cancelled"

\* asyncio.TimeoutError: every task that is not done is cancelled, then the done
\* set is walked; a raising d.result() ends the coroutine (and its future) there
RlTimeout ==
    /\ rlPc = "gather"
    /\ LoopFree
    /\ \E u \in AllUsers : tasks[u] # "none" /\ ~TaskDone(tasks[u])
    /\ LET after == [u \in AllUsers |-> IF tasks[u] # "none" /\ ~TaskDone(tasks[u])
                                     THEN "cancelled" ELSE tasks[u]]
       IN  IF \E u \in AllUsers : ResultRaises(after[u])
           THEN /\ reload_future' = "cancelled"
                /\ rlPc' = "none"
                /\ inFlight' = inFlight - 1
                /\ tasks' = [u \in AllUsers |-> "none"]
                /\ results' = [u \in AllUsers |-> <<>>]
                   ELSE /\ tasks' = after
                /\ UNCHANGED <<reload_future, rlPc, inFlight, results>>
    /\ rlTimedOut' = TRUE
    /\ UNCHANGED sharedVars
    /\ UNCHANGED <<nReloads, rlMsg, rlKnown, summary>>
    /\ UNCHANGED <<omVars, cliVars, sendVars, ghostVars>>
    /\ UNCHANGED extVars

\* the log after the merge: "if texts: conversations[uid] = texts"
Merged(log, texts) == IF texts # <<>> THEN texts ELSE log

\* gather returned: with conversations_lock: replace the log of every uid whose
\* texts are non-empty, counting them in updated
RlMerge ==
    /\ rlPc = "gather"
    /\ LoopFree
    /\ \A u \in AllUsers : tasks[u] = "none" \/ TaskDone(tasks[u])
    /\ convLock = "free"
    /\ conversations' = [u \in AllUsers |-> Merged(conversations[u], results[u])]
    /\ summary' = [summary EXCEPT !.updated = Cardinality({u \in AllUsers : results[u] # <<>>})]
    /\ intact' = {m \in intact : results[m[1]] = <<>>}
    /\ rlPc' = "pop"
    /\ UNCHANGED <<incoming_queue, unread_count, knownFile, convFile, remoteHist,
                   channels, convSaves, knownSaves, convLock>>
    /\ UNCHANGED <<reload_future, nReloads, tasks, results, rlMsg, rlKnown, inFlight,
                   rlTimedOut>>
    /\ UNCHANGED <<omVars, cliVars, sendVars, midReload, quietDrains>>
    /\ UNCHANGED extVars

\* the drain loop of the reload: incoming_queue.get_nowait(); on queue.Empty it
\* goes on to "await save_conversations()"
RlPop ==
    /\ \/ rlPc = "pop"
       \/ rlPc = "resume" /\ LoopFree
    /\ IF incoming_queue = <<>>
       THEN /\ rlPc' = "save_conv"
            /\ UNCHANGED <<incoming_queue, rlMsg>>
       ELSE /\ rlMsg' = Head(incoming_queue)
            /\ incoming_queue' = Tail(incoming_queue)
            /\ rlPc' = "dec"
    /\ UNCHANGED <<unread_count, conversations, knownFile, convFile, remoteHist,
                   channels, convSaves, knownSaves, convLock>>
    /\ UNCHANGED <<reload_future, nReloads, tasks, results, rlKnown, summary, inFlight,
                   rlTimedOut>>
    /\ UNCHANGED <<omVars, cliVars, sendVars, ghostVars>>
    /\ UNCHANGED extVars

\* with unread_lock: if unread_count > 0: unread_count -= 1
RlDec ==
    /\ rlPc = "dec"
    /\ unread_count' = DecUnread(unread_count)
    /\ rlPc' = "append"
    /\ UNCHANGED <<incoming_queue, conversations, knownFile, convFile, remoteHist,
                   channels, convSaves, knownSaves, convLock>>
    /\ UNCHANGED <<reload_future, nReloads, tasks, results, rlMsg, rlKnown, summary,
                   inFlight, rlTimedOut>>
    /\ UNCHANGED <<omVars, cliVars, sendVars, ghostVars>>
    /\ UNCHANGED extVars

\* with conversations_lock: conversations.setdefault(author.id, []).append(line);
\* drained.append(..)
RlAppend ==
    /\ rlPc = "append"
    /\ convLock = "free"
    /\ conversations' = [conversations EXCEPT ![rlMsg[1]] = Append(@, Fmt(AuthorLabel(rlMsg[1]), rlMsg[2]))]
    /\ summary' = [summary EXCEPT !.drained = @ + 1]
    /\ rlPc' = "known"
    /\ UNCHANGED <<incoming_queue, unread_count, knownFile, convFile, remoteHist,
                   channels, convSaves, knownSaves, convLock>>
    /\ UNCHANGED <<reload_future, nReloads, tasks, results, rlMsg, rlKnown, inFlight,
                   rlTimedOut>>
    /\ UNCHANGED <<omVars, cliVars, sendVars, ghostVars>>
    /\ UNCHANGED extVars

\* known = set(load_known_users()); known.add(author.id);
\* await save_known_users(..) hands the write to a worker and yields the loop
RlKnown ==
    /\ rlPc = "known"
    /\ rlKnown' = knownFile \cup {rlMsg[1]}
    /\ rlMsg' = <<>>
    /\ rlPc' = "save_known"
    /\ UNCHANGED sharedVars
    /\ UNCHANGED <<reload_future, nReloads, tasks, results, summary, inFlight, rlTimedOut>>
    /\ UNCHANGED <<omVars, cliVars, sendVars, ghostVars>>
    /\ UNCHANGED extVars

\* the worker runs save_known_users_sync(payload); the coroutine is ready again
RlSaveKnown ==
    /\ rlPc = "save_known"
    /\ knownFile' = rlKnown
    /\ rlKnown' = {}
    /\ rlPc' = "resume"
    /\ UNCHANGED <<incoming_queue, unread_count, conversations, convFile, remoteHist,
                   channels, convSaves, knownSaves, convLock>>
    /\ UNCHANGED <<reload_future, nReloads, tasks, results, rlMsg, summary, inFlight,
                   rlTimedOut>>
    /\ UNCHANGED <<omVars, cliVars, sendVars, ghostVars>>
    /\ UNCHANGED extVars

\* await save_conversations(): the worker enters "with conversations_lock:"
RlSaveConvAcquire ==
    /\ rlPc = "save_conv"
    /\ convLock = "free"
    /\ convLock' = "reload"
    /\ rlPc' = "saving"
    /\ UNCHANGED <<incoming_queue, unread_count, conversations, knownFile, convFile,
                   remoteHist, channels, convSaves, knownSaves>>
    /\ UNCHANGED <<reload_future, nReloads, tasks, results, rlMsg, rlKnown, summary,
                   inFlight, rlTimedOut>>
    /\ UNCHANGED <<omVars, cliVars, sendVars, ghostVars>>
    /\ UNCHANGED extVars

\* the document is written and the lock released; the coroutine returns
\* {"updated": updated, "drained": len(drained)} and its future is done
RlSaveConvRelease ==
    /\ rlPc = "saving"
    /\ convFile' = conversations
    /\ convLock' = "free"
    /\ reload_future' = "done"
    /\ inFlight' = inFlight - 1
    /\ rlPc' = "none"
    /\ tasks' = [u \in AllUsers |-> "none"]
    /\ results' = [u \in AllUsers |-> <<>>]
    /\ UNCHANGED <<incoming_queue, unread_count, conversations, knownFile,
                   remoteHist, channels, convSaves, knownSaves>>
    /\ UNCHANGED <<nReloads, rlMsg, rlKnown, summary, rlTimedOut>>
    /\ UNCHANGED <<omVars, cliVars, sendVars, ghostVars>>
    /\ UNCHANGED extVars

(* ---------------- on_ready (network context and its worker) ---------------- *)

\* on_ready fires (at the first connect or after a reconnect): bot_status is
\* set and load_conversations_sync is handed to a worker thread
OnReadyStart ==
    /\ LoopFree
    /\ orPc = "idle"
    /\ nReady < MaxReady
    /\ nReady' = nReady + 1
    /\ orPc' = "read"
    /\ UNCHANGED <<coreVars, ghostVars, orData, procPc, ioFailed, saveVars, lockVars>>

\* data = load_json(CONVERSATIONS_FILE, {}) -- read without conversations_lock
OnReadyRead ==
    /\ orPc = "read"
    /\ orData' = convFile
    /\ orPc' = "assign"
    /\ UNCHANGED <<coreVars, ghostVars, nReady, procPc, ioFailed, saveVars, lockVars>>

\* with conversations_lock: conversations = {int(k): v for k, v in data.items()}
OnReadyAssign ==
    /\ orPc = "assign"
    /\ convLock = "free"
    /\ conversations' = orData
    /\ orData' = [u \in AllUsers |-> <<>>]
    /\ orPc' = "idle"
    /\ intact' = {}
    /\ UNCHANGED <<incoming_queue, unread_count, knownFile, convFile, remoteHist,
                   channels, convSaves, knownSaves, convLock>>
    /\ UNCHANGED <<omVars, cliVars, sendVars, rlVars>>
    /\ UNCHANGED <<midReload, quietDrains>>
    /\ UNCHANGED <<nReady, procPc, ioFailed, saveVars, lockVars>>

\* save_json_atomic in a worker: atomic_save raised, the exception is logged
\* and swallowed, the document is left as it was and the lock released
WorkerSaveConvFail ==
    /\ convLock = "worker"
    /\ convLock' = "free"
    /\ ioFailed' = TRUE
    /\ UNCHANGED <<incoming_queue, unread_count, conversations, knownFile, convFile,
                   remoteHist, channels, convSaves, knownSaves>>
    /\ UNCHANGED <<omVars, cliVars, sendVars, rlVars, ghostVars>>
    /\ UNCHANGED <<readyVars, procPc, saveVars, lockVars>>

(* ---------------- the exit path ---------------- *)

\* menu choice 7, or choice 4 with a new token: shutdown_event.set(),
\* client.close() is scheduled on the loop and run_cli returns
CliExit ==
    /\ cliPc = "menu"
    /\ procPc = "up"
    /\ cliPc' = "exited"
    /\ procPc' = "closing"
    /\ UNCHANGED sharedVars
    /\ UNCHANGED <<cliMsg, cliDrained, cliKnown, cliUid, nSends, lastTrigger>>
    /\ UNCHANGED <<omVars, sendVars, rlVars, ghostVars>>
    /\ UNCHANGED <<readyVars, ioFailed, saveVars, lockVars>>

\* client.start(token) ends on its own (the connection is lost for good or the
\* login fails): client_task is done while run_cli is still running
NetClientEnds ==
    /\ procPc = "up"
    /\ LoopFree
    /\ procPc' = "closing"
    /\ UNCHANGED <<coreVars, ghostVars, readyVars, ioFailed, saveVars, lockVars>>

\* what is left of a coroutine awaiting asyncio.to_thread when it is
\* cancelled: the call goes on if its worker thread has started
AfterCancel(pc) ==
    IF pc = "saving" THEN {pc}
    ELSE IF pc \in {"save_known", "save_conv"} THEN {pc, "none"}
    ELSE {"none"}

\* "await client_task" returns; main's finally sets shutdown_event and joins
\* run_cli for at most 2 s without writing anything; asyncio.run then cancels
\* every task that is left: a save_conversations()/save_known_users() task
\* whose worker has not started is dropped, one whose worker runs goes on
Teardown ==
    /\ procPc = "closing"
    /\ LoopFree
    /\ procPc' = "down"
    /\ \E k \in 0..convSaves : convSaves' = k
    /\ \E b \in SubBag(knownSaves) : knownSaves' = b
    /\ \E pc \in AfterCancel(rlPc) :
        /\ rlPc' = pc
        /\ reload_future' = IF pc = "none" /\ reload_future = "running"
                            THEN "cancelled" ELSE reload_future
        /\ inFlight' = IF pc = "none" THEN 0 ELSE inFlight
        /\ tasks' = IF pc = "none" THEN [u \in AllUsers |-> "none"] ELSE tasks
        /\ results' = IF pc = "none" THEN [u \in AllUsers |-> <<>>] ELSE results
    /\ UNCHANGED <<incoming_queue, unread_count, conversations, knownFile, convFile,
                   remoteHist, channels, convLock>>
    /\ UNCHANGED <<nReloads, rlMsg, rlKnown, summary, rlTimedOut>>
    /\ UNCHANGED <<omVars, cliVars, sendVars, ghostVars>>
    /\ UNCHANGED <<readyVars, ioFailed, saveVars, lockVars>>

\* a worker thread still has a write to do
WorkerBusy ==
    \/ convSaves > 0
    \/ knownSaves # EmptyBag
    \/ convLock \in {"worker", "reload"}
    \/ rlPc \in {"save_known", "save_conv", "saving"}
    \/ orPc # "idle"

\* the interpreter exits once the worker threads have ended; run_cli, a daemon
\* thread, ends with it wherever it is (a document it was writing keeps its
\* old value)
ProcessExit ==
    /\ procPc = "down"
    /\ ~WorkerBusy
    /\ procPc' = "exited"
    /\ cliPc' = "exited"
    /\ convLock' = "free"
    /\ UNCHANGED <<incoming_queue, unread_count, conversations, knownFile, convFile,
                   remoteHist, channels, convSaves, knownSaves>>
    /\ UNCHANGED <<cliMsg, cliDrained, cliKnown, cliUid, nSends, lastTrigger>>
    /\ UNCHANGED <<omVars, sendVars, rlVars, ghostVars>>
    /\ UNCHANGED <<readyVars, ioFailed, saveVars, lockVars>>

(* ---------------- atomic_save and load_json ---------------- *)

\* one element of a saved list
Records == {"a", "b"}

\* the values that are saved
SaveData == {<<>>, <<"a">>, <<"a", "b">>}

\* the defaults callers pass to load_json
Defaults == {<<>>, <<"b">>}

\* json.dump: the text of a list, as the sequence of pieces written to the file
Dump(data) == <<"[">> \o data \o <<"]">>

\* the text is one complete list
IsJson(text) ==
    /\ Len(text) >= 2
    /\ text[1] = "["
    /\ text[Len(text)] = "]"
    /\ \A i \in 2..(Len(text) - 1) : text[i] \in Records

\* json.load of a complete text
ParseJson(text) == SubSeq(text, 2, Len(text) - 1)

\* load_json(path, default)
LoadJson(file, default) ==
    IF file.exists
    THEN IF IsJson(file.text) THEN ParseJson(file.text) ELSE default
    ELSE default

\* the file holding the dump of data
FileOf(data) == [exists |-> TRUE, text |-> Dump(data)]

\* fd, tmp = tempfile.mkstemp(dir=dirn): an empty temporary file exists
AsCall(d) ==
    /\ asPc \in {"idle", "returned", "raised"}
    /\ asData' = d
    /\ asOld' = asDoc
    /\ asTmp' = [exists |-> TRUE, text |-> <<>>]
    /\ asPc' = "write"
    /\ UNCHANGED <<asDoc, asLoad>>
    /\ UNCHANGED <<coreVars, ghostVars, readyVars, procPc, ioFailed, lockVars>>

\* mkstemp itself raises (before the try block): no temporary file was made
AsMkstempFail(d) ==
    /\ asPc \in {"idle", "returned", "raised"}
    /\ asData' = d
    /\ asOld' = asDoc
    /\ asTmp' = NoFile
    /\ asPc' = "raised"
    /\ UNCHANGED <<asDoc, asLoad>>
    /\ UNCHANGED <<coreVars, ghostVars, readyVars, procPc, ioFailed, lockVars>>

\* json.dump(data, f, ..): the next piece of the text reaches the temporary file
AsWrite ==
    /\ asPc = "write"
    /\ Len(asTmp.text) < Len(Dump(asData))
    /\ asTmp' = [asTmp EXCEPT !.text = Append(@, Dump(asData)[Len(@) + 1])]
    /\ UNCHANGED <<asPc, asDoc, asData, asOld, asLoad>>
    /\ UNCHANGED <<coreVars, ghostVars, readyVars, procPc, ioFailed, lockVars>>

\* f.flush(); os.fsync(f.fileno()); the file is closed
AsSync ==
    /\ asPc = "write"
    /\ asTmp.text = Dump(asData)
    /\ asPc' = "replace"
    /\ UNCHANGED <<asDoc, asTmp, asData, asOld, asLoad>>
    /\ UNCHANGED <<coreVars, ghostVars, readyVars, procPc, ioFailed, lockVars>>

\* the temporary file left in place by the except handler
RemoveTmpMut(tmp) == tmp

\* "if os.path.exists(tmp): os.remove(tmp)"
RemoveTmp(tmp) == NoFile

\* os.replace(tmp, path): the temporary file becomes the document in one step
AsReplace ==
    /\ asPc = "replace"
    /\ asDoc' = asTmp
    /\ asTmp' = NoFile
    /\ asPc' = "returned"
    /\ UNCHANGED <<asData, asOld, asLoad>>
    /\ UNCHANGED <<coreVars, ghostVars, readyVars, procPc, ioFailed, lockVars>>

\* json.dump, flush, fsync or os.replace raises
AsFail ==
    /\ asPc \in {"write", "replace"}
    /\ asPc' = "except"
    /\ UNCHANGED <<asDoc, asTmp, asData, asOld, asLoad>>
    /\ UNCHANGED <<coreVars, ghostVars, readyVars, procPc, ioFailed, lockVars>>

\* "except Exception:" removes the temporary file and re-raises
AsExcept ==
    /\ asPc = "except"
    /\ asTmp' = RemoveTmp(asTmp)
    /\ asPc' = "raised"
    /\ UNCHANGED <<asDoc, asData, asOld, asLoad>>
    /\ UNCHANGED <<coreVars, ghostVars, readyVars, procPc, ioFailed, lockVars>>

\* the process dies in the middle of the call: the files stay as they are
AsCrash ==
    /\ asPc \in {"write", "replace", "except"}
    /\ asPc' = "crashed"
    /\ UNCHANGED <<asDoc, asTmp, asData, asOld, asLoad>>
    /\ UNCHANGED <<coreVars, ghostVars, readyVars, procPc, ioFailed, lockVars>>

\* load_json(path, d), by this process or by the next one after a crash
AsLoad(d) ==
    /\ asPc \in {"idle", "returned", "raised", "crashed"}
    /\ asLoad' = [default |-> d, value |-> LoadJson(asDoc, d)]
    /\ UNCHANGED <<asPc, asDoc, asTmp, asData, asOld>>
    /\ UNCHANGED <<coreVars, ghostVars, readyVars, procPc, ioFailed, lockVars>>

(* ---------------- specifications ---------------- *)

\* the relay after a message was put: the rest of on_message, the workers and
\* the control-side drain
RelaySteps ==
    \/ OnMessageInc
    \/ OnMessageAppend
    \/ OnMessageKnown
    \/ WorkerSaveConvAcquire
    \/ WorkerSaveConvRelease
    \/ \E p \in SUBSET AllUsers : WorkerSaveKnown(p)
    \/ CliDrainPop
    \/ CliDrainDec
    \/ CliDrainAppend
    \/ CliDrainLoad
    \/ CliDrainSaveKnown
    \/ CliDrainSaveAcquire
    \/ CliDrainSaveRelease
    \/ CliMenuLoop

\* the relay with up to MaxInbound inbound messages
Relay ==
    \/ \E u \in Users : OnMessagePut(u, MaxInbound)
    \/ RelaySteps

\* outbound sends through the dispatch bridge
Sends ==
    \/ \E u \in Users : CliSendDispatch(u)
    \/ CliSendOk
    \/ CliSendKnown
    \/ CliSendErr
    \/ CliSendTimeout
    \/ NetSendOk
    \/ NetSendErr

\* a running reload_all_histories
Reload ==
    \/ RlStart
    \/ \E u \in AllUsers : TaskAdmit(u)
    \/ \E u \in AllUsers : TaskFetchOk(u)
    \/ \E u \in AllUsers : TaskFetchErr(u)
    \/ \E u \in AllUsers : \E k \in 0..(MaxInbound + MaxSends) : TaskFetchPartial(u, k)
    \/ RlTimeout
    \/ RlMerge
    \/ RlPop
    \/ RlDec
    \/ RlAppend
    \/ RlKnown
    \/ RlSaveKnown
    \/ RlSaveConvAcquire
    \/ RlSaveConvRelease

\* the whole program, one reload
Next ==
    \/ Relay
    \/ Sends
    \/ CliTriggerReload(MaxReloads)
    \/ Reload

Spec == Init /\ [][Next]_vars

\* the program without operator sends, the reload triggered up to MaxReloadRuns times
NextReload ==
    \/ Relay
    \/ CliTriggerReload(MaxReloadRuns)
    \/ Reload

SpecReload == Init /\ [][NextReload]_vars

\* the relay with a burst of up to MaxBurst inbound messages
NextRelay ==
    \/ \E u \in Users : OnMessagePut(u, MaxBurst)
    \/ RelaySteps

SpecRelay == Init /\ [][NextRelay]_vars

\* the relay with on_ready events and failing writes of conversations.json
NextReady ==
    \/ Relay
    \/ OnReadyStart
    \/ OnReadyRead
    \/ OnReadyAssign
    \/ WorkerSaveConvFail

SpecReady == Init /\ [][NextReady]_vars

\* the relay and the reload with the exit path
NextExit ==
    \/ Relay
    \/ CliTriggerReload(MaxReloads)
    \/ Reload
    \/ CliExit
    \/ NetClientEnds
    \/ Teardown
    \/ ProcessExit

SpecExit == Init /\ [][NextExit]_vars

\* the relay and one reload, every inbound message arriving before the reload
\* is scheduled
NextQuiet ==
    \/ \E u \in Users : reload_future = "none" /\ OnMessagePut(u, MaxInbound)
    \/ RelaySteps
    \/ CliTriggerReload(MaxReloads)
    \/ Reload

SpecQuiet == Init /\ [][NextQuiet]_vars

\* a later start: known_users.json holds any set of ids, and every user has
\* written one message in an earlier run
InitGate ==
    /\ InitRest
    /\ knownFile \in SUBSET AllUsers
    /\ remoteHist = [u \in AllUsers |-> <<Fmt(AuthorLabel(u), Content(0))>>]
    /\ asDoc = NoFile

\* the operator sending while a reload runs and no message arrives, the control
\* thread leaving fut.result() only after the history of the addressee was
\* fetched and before the merge
NextMid ==
    \/ CliDrainPop
    \/ CliMenuLoop
    \/ \E u \in Users : CliSendDispatch(u)
    \/ (cliPc = "send_wait" /\ rlPc = "gather" /\ tasks[cliUid] \in {"ok", "failed"}
            /\ CliSendOk)
    \/ CliSendKnown
    \/ CliSendErr
    \/ CliSendTimeout
    \/ NetSendOk
    \/ NetSendErr
    \/ WorkerSaveConvAcquire
    \/ WorkerSaveConvRelease
    \/ \E p \in SUBSET AllUsers : WorkerSaveKnown(p)
    \/ CliTriggerReload(MaxReloads)
    \/ RlStart
    \/ \E u \in AllUsers : TaskAdmit(u)
    \/ \E u \in AllUsers : TaskFetchOk(u)
    \/ \E u \in AllUsers : TaskFetchErr(u)
    \/ \E u \in AllUsers : TaskFetchPartial(u, 0)
    \/ RlTimeout
    \/ RlMerge
    \/ RlPop
    \/ RlSaveConvAcquire
    \/ RlSaveConvRelease

SpecMid == InitGate /\ [][NextMid]_vars

\* the operator triggering reloads while no message arrives
NextGate ==
    \/ CliDrainPop
    \/ CliMenuLoop
    \/ CliTriggerReload(MaxReloads)
    \/ RlStart
    \/ \E u \in AllUsers : TaskAdmit(u)
    \/ \E u \in AllUsers : TaskFetchOk(u)
    \/ \E u \in AllUsers : TaskFetchErr(u)
    \/ \E u \in AllUsers : TaskFetchPartial(u, 0)
    \/ RlTimeout
    \/ RlMerge
    \/ RlPop
    \/ RlSaveConvAcquire
    \/ RlSaveConvRelease

\* the event loop runs a ready waiter, and the timer of asyncio.wait_for fires
\* while the gather is not done; a fetch may never return
SpecGate ==
    /\ InitGate
    /\ [][NextGate]_vars
    /\ WF_vars(RlStart)
    /\ WF_vars(\E u \in AllUsers : TaskAdmit(u))
    /\ WF_vars(RlTimeout)

\* a document that is absent, cut short, or complete when the process starts
InitSave ==
    /\ InitRest
    /\ knownFile = {}
    /\ remoteHist = [u \in AllUsers |-> <<>>]
    /\ asDoc \in {NoFile, [exists |-> TRUE, text |-> <<"[", "a">>], FileOf(<<"b">>)}

\* calls of atomic_save and load_json on one path
NextSave ==
    \/ \E d \in SaveData : AsCall(d)
    \/ \E d \in SaveData : AsMkstempFail(d)
    \/ AsWrite
    \/ AsSync
    \/ AsReplace
    \/ AsFail
    \/ AsExcept
    \/ AsCrash
    \/ \E d \in Defaults : AsLoad(d)

SpecSave == InitSave /\ [][NextSave]_vars

(* ---------------- the three locks, thread by thread ---------------- *)

\* The steps of an operation that touch a lock or hand a lock-taking function
\* to a worker, in program order; the steps in between touch no lock.

\* entering a "with <lock>:" block (threading.Lock.acquire, blocking)
Acq(l) == <<"acquire", l>>

\* leaving the block (release), by the end of its body, a return or an exception
Rel(l) == <<"release", l>>

\* asyncio.to_thread(f), in a task created on the loop
ToThread(f) == <<"to_thread", f>>

\* "with l:" around a body
WithLock(l, body) == <<Acq(l)>> \o body \o <<Rel(l)>>

\* on_ready: bot_status under its lock, then load_conversations_sync in a worker
OnReadyLocks ==
    WithLock("bot_status_lock", <<>>) \o <<ToThread("load_conversations_sync")>>

\* on_message: the counter, then the log, then the save task
OnMessageLocks ==
    WithLock("unread_lock", <<>>) \o WithLock("conversations_lock", <<>>)
        \o <<ToThread("save_conversations_sync")>>

\* the merge of reload_all_histories
ReloadMergeLocks == WithLock("conversations_lock", <<>>)

\* one pass of the drain loop of reload_all_histories, up to its await
ReloadDrainLocks ==
    WithLock("unread_lock", <<>>) \o WithLock("conversations_lock", <<>>)

\* "await save_conversations()" at the end of reload_all_histories
ReloadSaveLocks == <<ToThread("save_conversations_sync")>>

\* show_menu reads the status and the counter
ShowMenuLocks == WithLock("bot_status_lock", <<>>) \o WithLock("unread_lock", <<>>)

\* list_conversations prints under the lock
ListConversationsLocks == WithLock("conversations_lock", <<>>)

\* show_conversation copies the log under the lock
ShowConversationLocks == WithLock("conversations_lock", <<>>)

\* save_conversations_sync holds the lock across save_json_atomic, which takes none
SaveConversationsSyncLocks == WithLock("conversations_lock", <<>>)

\* load_conversations_sync reads the file first and assigns under the lock
LoadConversationsSyncLocks == WithLock("conversations_lock", <<>>)

\* a drain that takes the log lock while it still holds the counter lock
DrainLocksMut ==
    WithLock("unread_lock", WithLock("conversations_lock", <<>>))
        \o SaveConversationsSyncLocks

\* drain_incoming_queue_to_conversations with one queued message: the counter,
\* the log, and save_conversations_sync on the same thread at the end
DrainLocks ==
    WithLock("unread_lock", <<>>) \o WithLock("conversations_lock", <<>>)
        \o SaveConversationsSyncLocks

\* run_cli after a successful send: the "You:" record, then the save task
SendAppendLocks ==
    WithLock("conversations_lock", <<>>) \o <<ToThread("save_conversations_sync")>>

\* the steps of an operation
Prog(op) ==
    CASE op = "on_ready" -> OnReadyLocks
      [] op = "on_message" -> OnMessageLocks
      [] op = "reload_merge" -> ReloadMergeLocks
      [] op = "reload_drain" -> ReloadDrainLocks
      [] op = "reload_save" -> ReloadSaveLocks
      [] op = "show_menu" -> ShowMenuLocks
      [] op = "list_conversations" -> ListConversationsLocks
      [] op = "show_conversation" -> ShowConversationLocks
      [] op = "drain" -> DrainLocks
      [] op = "send_append" -> SendAppendLocks
      [] op = "save_conversations_sync" -> SaveConversationsSyncLocks
      [] op = "load_conversations_sync" -> LoadConversationsSyncLocks
      [] OTHER -> <<>>

\* the operations a thread runs
OpsOf(t) ==
    IF t = LoopThread
    THEN {"on_ready", "on_message", "reload_merge", "reload_drain", "reload_save"}
    ELSE IF t = CliThread
    THEN {"drain", "show_menu", "list_conversations", "show_conversation", "send_append"}
    ELSE WorkerCalls

\* the step a thread is at
CurStep(t) == Prog(thPc[t].op)[thPc[t].at]

\* the position after the current step
Advance(t) ==
    IF thPc[t].at = Len(Prog(thPc[t].op))
    THEN Idle
    ELSE [thPc[t] EXCEPT !.at = @ + 1]

\* a thread begins an operation: a callback or coroutine section on the loop,
\* a function of run_cli, or a worker taking a waiting to_thread call
ThStart(t, op) ==
    /\ thPc[t] = Idle
    /\ op \in OpsOf(t)
    /\ IF t \in WorkerThreads
       THEN /\ toThread[op] > 0
            /\ toThread' = [toThread EXCEPT ![op] = @ - 1]
            /\ UNCHANGED nOps
       ELSE /\ nOps[t] < MaxLockOps
            /\ nOps' = [nOps EXCEPT ![t] = @ + 1]
            /\ UNCHANGED toThread
    /\ thPc' = [thPc EXCEPT ![t] = [op |-> op, at |-> 1]]
    /\ UNCHANGED lockHolder
    /\ UNCHANGED <<coreVars, ghostVars, readyVars, procPc, ioFailed, saveVars>>

\* the thread enters a "with" block: it blocks until the lock is free
ThAcquire(t) ==
    /\ thPc[t] # Idle
    /\ CurStep(t)[1] = "acquire"
    /\ lockHolder[CurStep(t)[2]] = NoThread
    /\ lockHolder' = [lockHolder EXCEPT ![CurStep(t)[2]] = t]
    /\ thPc' = [thPc EXCEPT ![t] = Advance(t)]
    /\ UNCHANGED <<toThread, nOps>>
    /\ UNCHANGED <<coreVars, ghostVars, readyVars, procPc, ioFailed, saveVars>>

\* the thread leaves the "with" block
ThRelease(t) ==
    /\ thPc[t] # Idle
    /\ CurStep(t)[1] = "release"
    /\ lockHolder' = [lockHolder EXCEPT ![CurStep(t)[2]] = NoThread]
    /\ thPc' = [thPc EXCEPT ![t] = Advance(t)]
    /\ UNCHANGED <<toThread, nOps>>
    /\ UNCHANGED <<coreVars, ghostVars, readyVars, procPc, ioFailed, saveVars>>

\* a call is handed to the executor
ThToThread(t) ==
    /\ thPc[t] # Idle
    /\ CurStep(t)[1] = "to_thread"
    /\ toThread' = [toThread EXCEPT ![CurStep(t)[2]] = @ + 1]
    /\ thPc' = [thPc EXCEPT ![t] = Advance(t)]
    /\ UNCHANGED <<lockHolder, nOps>>
    /\ UNCHANGED <<coreVars, ghostVars, readyVars, procPc, ioFailed, saveVars>>

\* a thread that is inside an operation goes on
ThStep(t) == ThAcquire(t) \/ ThRelease(t) \/ ThToThread(t)

\* every thread of the process taking and releasing the three locks
NextLock ==
    \/ \E t \in Threads : \E op \in OpsOf(t) : ThStart(t, op)
    \/ \E t \in Threads : ThAcquire(t)
    \/ \E t \in Threads : ThRelease(t)
    \/ \E t \in Threads : ThToThread(t)

\* a thread that can take a step is scheduled; which operation starts next, and
\* when, is left open
SpecLock ==
    /\ Init
    /\ [][NextLock]_vars
    /\ \A t \in Threads : WF_vars(ThStep(t))

(* ---------------- properties ---------------- *)

\* number of records of log equal to line
Count(log, line) == Cardinality({i \in 1..Len(log) : log[i] = line})

\* no callback, no drain and no reload is in the middle of its work
Quiescent ==
    /\ omPc = "idle"
    /\ cliPc = "menu"
    /\ rlPc \in {"none", "sched", "gather"}

\* C1: every inbound message that on_message has handled and whose log no
\* reload has replaced since is in the log of its author exactly once, drains
\* included, because a drain never appends.
C1_AppendedExactlyOnce ==
    \A m \in intact :
        (omMsg # m) => Count(conversations[m[1]], Fmt(AuthorLabel(m[1]), m[2])) = 1

\* C2: at a quiescent point the Unread Counter is the number of entries of the
\* Hand-off Queue that have not been drained.
C2_UnreadEqualsQueued ==
    Quiescent => unread_count = Len(incoming_queue)

\* C3: once a reload has completed and the queue is drained, a message that
\* arrived while the reload was gathering its fetches is in the log of its
\* author exactly once.
C3_MidReloadExactlyOnce ==
    (reload_future = "done" /\ Quiescent /\ incoming_queue = <<>>)
        => \A m \in midReload : Count(conversations[m[1]], Fmt(AuthorLabel(m[1]), m[2])) = 1

\* C4: a reload that hit the global timeout does not fail as a whole: it is
\* still on its way to merge, drain and persist, or it has returned a summary.
C4_TimeoutStillReturnsSummary ==
    rlTimedOut => reload_future \in {"running", "done"}

\* C5: in the merge, a target whose fetch failed keeps its log and is not
\* counted; a target whose fetch succeeded with a non-empty history gets that
\* history and is counted.
C5_FailedTargetContributesNothing ==
    [][(rlPc = "gather" /\ rlPc' = "pop") =>
        /\ \A u \in AllUsers : tasks[u] = "failed" => conversations'[u] = conversations[u]
        /\ \A u \in AllUsers : (tasks[u] = "ok" /\ results[u] # <<>>)
                                => conversations'[u] = results[u]
        /\ summary'.updated =
              Cardinality({u \in AllUsers : tasks[u] = "ok" /\ results[u] # <<>>})]_vars

\* C6: no two executions of reload_all_histories are ever in flight; choice 5
\* during a running reload reports "already running" and starts nothing, and
\* after the reload has ended it starts a new one.
C6_SingleReloadInFlight ==
    /\ [](inFlight <= 1)
    /\ [][(cliPc = "menu" /\ lastTrigger' # "none") =>
            IF reload_future = "running"
            THEN lastTrigger' = "already_running" /\ UNCHANGED rlVars
            ELSE /\ lastTrigger' = "started"
                 /\ reload_future' = "running"
                 /\ rlPc' = "sched"
                 /\ inFlight' = 1]_vars

\* C6 witness: a second reload, started after the first had ended, is running
\* and a further trigger has just been answered "already running"
C6_Witness ==
    /\ nReloads = 2
    /\ reload_future = "running"
    /\ inFlight = 1
    /\ lastTrigger = "already_running"

\* C7: an identifier written to the persisted Known-Correspondents set is
\* never absent from it afterwards.
C7_KnownMonotone ==
    [][knownFile \subseteq knownFile']_vars

\* nothing is running, queued or scheduled: only a new inbound message or a
\* menu choice can change the state
Settled ==
    /\ Quiescent
    /\ rlPc = "none"
    /\ incoming_queue = <<>>
    /\ convSaves = 0
    /\ knownSaves = EmptyBag
    /\ convLock = "free"
    /\ sendFut = "none"

\* C8: every correspondent with a Conversation Log ends up in the
\* Known-Correspondents set: once all pending work has run, it is there.
C8_LoggedIsKnown ==
    Settled => \A u \in AllUsers : conversations[u] # <<>> => u \in knownFile

C10_SecondDrainIdempotent ==
    [][(cliPc = "drain_pop" /\ cliDrained = 0 /\ quietDrains >= 1 /\ cliPc' # cliPc) =>
        /\ cliPc' = "menu"
        /\ cliDrained' = 0
        /\ UNCHANGED <<incoming_queue, conversations, unread_count, knownFile, convFile>>]_vars

\* C10 witness: after an inbound message, two drains in a row have found the
\* queue empty and the second has returned
C10_Witness ==
    /\ nIn >= 1
    /\ quietDrains = 2
    /\ cliPc = "menu"
    /\ \E u \in Users : conversations[u] # <<>>

\* C11: once the mutations of the logs have stopped and every scheduled save
\* has run, none of them failing, conversations.json equals the in-memory
\* Conversation Logs.
C11_PersistedEqualsMemory ==
    (Settled /\ orPc = "idle" /\ ~ioFailed) => convFile = conversations

\* C12: when the process has gone through the exit path and has ended,
\* conversations.json holds every record that was in the in-memory
\* Conversation Logs at shutdown.
C12_FinalFlush ==
    procPc = "exited" => convFile = conversations

\* C13: the Unread Counter is never negative, whatever the interleaving of the
\* increments of on_message with the decrements of the two drains.
C13_UnreadNeverNegative ==
    unread_count >= 0

\* C13 witness: the control-side drain has popped a message and run its
\* decrement while the counter was still 0, on_message not having counted the
\* message yet
C13_Witness ==
    /\ omPc = "inc"
    /\ cliPc = "drain_append"
    /\ cliMsg = omMsg
    /\ unread_count = 0

\* C14: in every log the records of inbound messages are in order of receipt:
\* no record of an earlier message comes after a record of a later one.
C14_OldestFirst ==
    \A u \in Users : \A i, j \in 1..Len(conversations[u]) : \A a, b \in 1..MaxBurst :
        (/\ i < j
         /\ conversations[u][i] = Fmt(AuthorLabel(u), Content(a))
         /\ conversations[u][j] = Fmt(AuthorLabel(u), Content(b))) => a <= b

\* C15: on_message never waits, at its "with conversations_lock:", for a lock
\* that a conversation save holds while it writes the document.
C15_OnMessageNeverWaitsForSave ==
    ~(omPc = "append" /\ convLock \in {"worker", "cli", "reload"})

\* positions of reload_all_histories after its merge
PostMerge == {"pop", "dec", "append", "known", "save_known", "resume", "save_conv", "saving"}

\* C16: with no message received or sent during the reload, the merge replaces
\* the log of every target with a non-empty fetched history by that history,
\* leaves every other log alone and counts the replaced logs in
\* summary.updated, and the logs stay as the merge left them until the reload
\* has returned.
C16_ReloadIsFullReplace ==
    [][/\ (rlPc = "gather" /\ rlPc' = "pop") =>
            /\ \A u \in AllUsers :
                  conversations'[u] = IF results[u] # <<>> THEN results[u] ELSE conversations[u]
            /\ summary'.updated = Cardinality({u \in AllUsers : results[u] # <<>>})
       /\ (rlPc \in PostMerge) => conversations' = conversations]_vars

\* the fetch_for_uid tasks that hold the semaphore
Fetching == {u \in AllUsers : tasks[u] = "fetching"}

\* C17: at most HISTORY_CONCURRENCY fetches are in flight at any time, however
\* many targets there are, and a task waiting at the semaphore is eventually
\* admitted or cancelled by the global timeout.
C17_AtMostNFetches ==
    /\ [](Cardinality(Fetching) <= HISTORY_CONCURRENCY)
    /\ \A u \in AllUsers : (tasks[u] = "wait") ~> (tasks[u] # "wait")

\* C17 witness: the semaphore is full and a further target is waiting
C17_Witness ==
    /\ Cardinality(Fetching) = HISTORY_CONCURRENCY
    /\ \E u \in AllUsers : tasks[u] = "wait"

\* the document is absent or is not one complete text
Unreadable(file) == ~file.exists \/ ~IsJson(file.text)

C19_YouRecordSurvivesReload ==
    [][(rlPc # "none") =>
        \A u \in Users : Count(conversations[u], FmtYou(OutText))
                            <= Count(conversations'[u], FmtYou(OutText))]_vars

\* C20: on_ready discards no record: every record that is in an in-memory log
\* when load_conversations_sync assigns is in that log afterwards, as many
\* times as before.
C20_OnReadyKeepsRecords ==
    [][(orPc = "assign" /\ orPc' = "idle") =>
        \A u \in AllUsers : \A i \in 1..Len(conversations[u]) :
            Count(conversations[u], conversations[u][i])
                <= Count(conversations'[u], conversations[u][i])]_vars

\* the locks a thread holds
Held(t) == {l \in Locks : lockHolder[l] = t}

\* the thread is at the entry of a "with" block
AtAcquire(t) == thPc[t] # Idle /\ CurStep(t)[1] = "acquire"

\* C21: no thread takes one of unread_lock, conversations_lock and
\* bot_status_lock while it holds another, so every lock that is taken is
\* released again and no thread waits at a lock forever.
C21_LocksDeadlockFree ==
    /\ [](\A t \in Threads : Cardinality(Held(t)) <= 1)
    /\ [](\A t \in Threads : AtAcquire(t) => Held(t) = {})
    /\ \A l \in Locks : (lockHolder[l] # NoThread) ~> (lockHolder[l] = NoThread)
    /\ \A t \in Threads : AtAcquire(t) ~> ~AtAcquire(t)

\* C21 witness: the loop thread waits in on_message for conversations_lock,
\* which a worker holds for a save, while the control thread holds unread_lock
C21_Witness ==
    /\ thPc[LoopThread].op = "on_message"
    /\ AtAcquire(LoopThread)
    /\ lockHolder["conversations_lock"] \in WorkerThreads
    /\ lockHolder["unread_lock"] = CliThread
====
